---------------------------- MODULE Spec2Model ----------------------------
(***************************************************************************)
(* Path finding and path following of the maze game's GamePlay state       *)
(* (game/gamestates/gameplay.py): bf_pathfinding, click_handler, update.   *)
(*                                                                         *)
(* The game map (data.game_map: tile, world, is_tile_passable,             *)
(* get_neighbors) is a collaborator whose code is not part of              *)
(* gameplay.py; it is modelled from the specification's section 6.         *)
(***************************************************************************)
EXTENDS Integers, Sequences, FiniteSets

(* ------------------------------ bounds --------------------------------- *)

\* At most MaxBlocked tiles are impassable at the same time.
MaxBlocked == 2

(* ----------------------------- game map -------------------------------- *)

\* game_map.width and game_map.height: the map is Width x Height tiles.
Width == 3
Height == 2

\* game_map.tile_size: world units per tile, the same on both axes.
TileSize == 2

Tiles == (0 .. Width - 1) \X (0 .. Height - 1)

\* World positions inside the map.
Positions == (0 .. Width * TileSize - 1) \X (0 .. Height * TileSize - 1)

VARIABLES
    passable,   \* game_map: the set of tiles is_tile_passable answers True for
    player,     \* data.player.x, data.player.y: the agent's world position
    path,       \* data.path: None, or a list of tiles
    plan,       \* history: the result of the latest search, as click_handler stored it
    done,       \* history: how many tiles of plan update has consumed since
    last,       \* history: the handler that ran last, its branch, its target tile
    thread      \* the statement each handler is at, and its locals, when the
                \* handlers run as two threads; at rest when they run as one

vars == <<passable, player, path, plan, done, last, thread>>

\* game_map.tile(world_position): world -> grid conversion.
tile(pos) == <<pos[1] \div TileSize, pos[2] \div TileSize>>

\* game_map.world(tile): grid -> world conversion, the centre of the tile.
world(t) == <<t[1] * TileSize + TileSize \div 2, t[2] * TileSize + TileSize \div 2>>

\* game_map.is_tile_passable(tile)
is_tile_passable(t) == t \in passable

\* The four orthogonal candidates of a tile in enumeration order
\* up, right, down, left (no diagonal movement).
Candidates(t) ==
    << <<t[1], t[2] - 1>>, <<t[1] + 1, t[2]>>,
       <<t[1], t[2] + 1>>, <<t[1] - 1, t[2]>> >>

IsNeighbor(n) == n \in Tiles /\ is_tile_passable(n)

\* game_map.get_neighbors(tile): the passable tiles of the map next to tile.
get_neighbors(t) == SelectSeq(Candidates(t), IsNeighbor)

(* --------------------------- python values ----------------------------- *)

\* data.path is None or a list; both None and [] are falsy.
None == [none |-> TRUE, tiles |-> <<>>]
List(s) == [none |-> FALSE, tiles |-> s]
Truthy(p) == ~p.none /\ p.tiles # <<>>

(* --------------------------- bf_pathfinding ---------------------------- *)

\* Mutant: queue.append([neighbour]), the prefix of the partial path lost.
RECURSIVE Extend_NoPrefix(_, _)
Extend_NoPrefix(p, neighbours) ==
    IF neighbours = <<>> THEN <<>>
    ELSE << <<Head(neighbours)>> >> \o Extend_NoPrefix(p, Tail(neighbours))

\* Mutant: for neighbour in reversed(neighbours), the other tie-break.
RECURSIVE Extend_Reversed(_, _)
Extend_Reversed(p, neighbours) ==
    IF neighbours = <<>> THEN <<>>
    ELSE Extend_Reversed(p, Tail(neighbours)) \o <<Append(p, Head(neighbours))>>

\* for neighbour in neighbours: queue.append(path + [neighbour])
RECURSIVE Extend(_, _)
Extend(p, neighbours) ==
    IF neighbours = <<>> THEN <<>>
    ELSE <<Append(p, Head(neighbours))>> \o Extend(p, Tail(neighbours))

\* The while loop of bf_pathfinding, from a queue and a visited set.
RECURSIVE bf_loop(_, _, _)
bf_loop(queue, visited, target_tile) ==
    IF queue = <<>> THEN None
    ELSE LET p == Head(queue)
             rest == Tail(queue)
             current_tile == p[Len(p)]
         IN  IF current_tile = target_tile THEN List(p)
             ELSE IF current_tile \notin visited
                  THEN bf_loop(rest \o Extend(p, get_neighbors(current_tile)),
                               visited \cup {current_tile}, target_tile)
                  ELSE bf_loop(rest, visited, target_tile)

\* Mutant: path = queue.pop(), the newest partial path first (depth first).
RECURSIVE df_loop(_, _, _)
df_loop(queue, visited, target_tile) ==
    IF queue = <<>> THEN None
    ELSE LET p == queue[Len(queue)]
             rest == SubSeq(queue, 1, Len(queue) - 1)
             current_tile == p[Len(p)]
         IN  IF current_tile = target_tile THEN List(p)
             ELSE IF current_tile \notin visited
                  THEN df_loop(rest \o Extend(p, get_neighbors(current_tile)),
                               visited \cup {current_tile}, target_tile)
                  ELSE df_loop(rest, visited, target_tile)

bf_pathfinding_DepthFirst(start_tile, target_tile) ==
    df_loop(<< <<start_tile>> >>, {}, target_tile)

\* Mutant: visited = {start_tile}, so the start tile is never expanded.
bf_pathfinding_StartVisited(start_tile, target_tile) ==
    bf_loop(<< <<start_tile>> >>, {start_tile}, target_tile)

bf_pathfinding(start_tile, target_tile) ==
    bf_loop(<< <<start_tile>> >>, {}, target_tile)

\* Mutant: if current_tile not in path[:-1], the test made against the
\* partial path's own tiles instead of the visited set.
RECURSIVE bf_trace_OwnPath(_, _, _, _)
bf_trace_OwnPath(queue, visited, target_tile, expanded) ==
    IF queue = <<>>
    THEN [result |-> None, expanded |-> expanded]
    ELSE LET p == Head(queue)
             rest == Tail(queue)
             current_tile == p[Len(p)]
         IN  IF current_tile = target_tile
             THEN [result |-> List(p), expanded |-> expanded]
             ELSE IF \A i \in 1 .. Len(p) - 1 : p[i] # current_tile
                  THEN bf_trace_OwnPath(rest \o Extend(p, get_neighbors(current_tile)),
                                        visited \cup {current_tile}, target_tile,
                                        Append(expanded, current_tile))
                  ELSE bf_trace_OwnPath(rest, visited, target_tile, expanded)

\* The while loop of bf_pathfinding once more, with the tiles whose
\* neighbours it enumerates (line 33) recorded in order.
RECURSIVE bf_trace(_, _, _, _)
bf_trace(queue, visited, target_tile, expanded) ==
    IF queue = <<>>
    THEN [result |-> None, expanded |-> expanded]
    ELSE LET p == Head(queue)
             rest == Tail(queue)
             current_tile == p[Len(p)]
         IN  IF current_tile = target_tile
             THEN [result |-> List(p), expanded |-> expanded]
             ELSE IF current_tile \notin visited
                  THEN bf_trace(rest \o Extend(p, get_neighbors(current_tile)),
                                visited \cup {current_tile}, target_tile,
                                Append(expanded, current_tile))
                  ELSE bf_trace(rest, visited, target_tile, expanded)

(* ---------------------------- click_handler ---------------------------- *)

Buttons == {"MOUSE_BTN1", "MOUSE_BTN2"}
ButtonActions == {"BUTTON_PRESSED", "BUTTON_RELEASED"}

\* The target recorded in last by a handler that ran no search.
NoTile == <<-1, -1>>

Did(op, branch, target) == [op |-> op, branch |-> branch, target |-> target]

\* Mutant: the test of line 84 is missing, every accepted press searches.
NoActivePath_Always == TRUE

\* if not self.data.path
NoActivePath == ~Truthy(path)

\* Mutant: the passability test of lines 81-82 is missing.
TargetRejected_Never(target_tile) == FALSE

\* if not self.data.game_map.is_tile_passable(target_tile): return
TargetRejected(target_tile) == ~is_tile_passable(target_tile)

\* Mutant: the tile of self.player_position, which stays Point2D(0, 0).
player_tile_Origin == tile(<<0, 0>>)

\* player_tile = self.data.game_map.tile(Point2D(self.data.player.x, self.data.player.y))
player_tile == tile(player)

\* Mutant: the press snaps the player onto the target before the search.
click_handler_Teleport(button, action, x, y) ==
    LET target_pos == <<x, y>>
        target_tile == tile(target_pos)
        found == bf_pathfinding(target_tile, target_tile)
    IN  /\ passable' = passable
        /\ IF button = "MOUSE_BTN1" /\ action = "BUTTON_PRESSED"
           THEN IF TargetRejected(target_tile)
                THEN /\ UNCHANGED <<player, path, plan, done>>
                     /\ last' = Did("click", "impassable", target_tile)
                ELSE IF NoActivePath
                     THEN /\ player' = world(target_tile)
                          /\ path' = found
                          /\ plan' = found.tiles
                          /\ done' = 0
                          /\ last' = Did("click", IF Truthy(found) THEN "installed"
                                                  ELSE "not_found", target_tile)
                     ELSE /\ UNCHANGED <<player, path, plan, done>>
                          /\ last' = Did("click", "busy", NoTile)
           ELSE /\ UNCHANGED <<player, path, plan, done>>
                /\ last' = Did("click", "not_press", NoTile)

click_handler(button, action, x, y) ==
    LET target_pos == <<x, y>>
        target_tile == tile(target_pos)
        found == bf_pathfinding(player_tile, target_tile)
    IN  /\ passable' = passable
        /\ player' = player
        /\ IF button = "MOUSE_BTN1" /\ action = "BUTTON_PRESSED"
           THEN IF TargetRejected(target_tile)
                THEN /\ UNCHANGED <<path, plan, done>>
                     /\ last' = Did("click", "impassable", target_tile)
                ELSE IF NoActivePath
                     THEN /\ path' = found
                          /\ plan' = found.tiles
                          /\ done' = 0
                          /\ last' = Did("click", IF Truthy(found) THEN "installed"
                                                  ELSE "not_found", target_tile)
                     ELSE /\ UNCHANGED <<path, plan, done>>
                          /\ last' = Did("click", "busy", NoTile)
           ELSE /\ UNCHANGED <<path, plan, done>>
                /\ last' = Did("click", "not_press", NoTile)

(* -------------------------------- update ------------------------------- *)

\* Mutant: self.data.path.pop(0) in place of the assignment of None.
Discarded_Head(p) == List(Tail(p.tiles))

\* self.data.path = None
Discarded(p) == None

\* Mutant: self.data.path.pop(), the last tile removed.
Popped_Last(p) == List(SubSeq(p.tiles, 1, Len(p.tiles) - 1))

\* self.data.path.pop(0)
Popped(p) == List(Tail(p.tiles))

\* Mutant: every tile of the path is validated, not only the next one.
update_ValidateAll ==
    /\ passable' = passable
    /\ IF Truthy(path)
       THEN LET next_tile == path.tiles[1]
            IN  IF \E i \in 1 .. Len(path.tiles) : ~is_tile_passable(path.tiles[i])
                THEN /\ path' = Discarded(path)
                     /\ player' = player
                     /\ UNCHANGED <<plan, done>>
                     /\ last' = Did("update", "blocked", NoTile)
                ELSE /\ player' = world(next_tile)
                     /\ path' = Popped(path)
                     /\ plan' = plan
                     /\ done' = done + 1
                     /\ last' = Did("update", "moved", NoTile)
       ELSE /\ UNCHANGED <<player, path, plan, done>>
            /\ last' = Did("update", "idle", NoTile)

\* Mutant: the player is moved before the passability test.
update_MoveFirst ==
    /\ passable' = passable
    /\ IF Truthy(path)
       THEN LET next_tile == path.tiles[1]
            IN  /\ player' = world(next_tile)
                /\ IF ~is_tile_passable(next_tile)
                   THEN /\ path' = Discarded(path)
                        /\ UNCHANGED <<plan, done>>
                        /\ last' = Did("update", "blocked", NoTile)
                   ELSE /\ path' = Popped(path)
                        /\ plan' = plan
                        /\ done' = done + 1
                        /\ last' = Did("update", "moved", NoTile)
       ELSE /\ UNCHANGED <<player, path, plan, done>>
            /\ last' = Did("update", "idle", NoTile)

update ==
    /\ passable' = passable
    /\ IF Truthy(path)
       THEN LET next_tile == path.tiles[1]
            IN  IF ~is_tile_passable(next_tile)
                THEN /\ path' = Discarded(path)
                     /\ player' = player
                     /\ UNCHANGED <<plan, done>>
                     /\ last' = Did("update", "blocked", NoTile)
                ELSE /\ player' = world(next_tile)
                     /\ path' = Popped(path)
                     /\ plan' = plan
                     /\ done' = done + 1
                     /\ last' = Did("update", "moved", NoTile)
       ELSE /\ UNCHANGED <<player, path, plan, done>>
            /\ last' = Did("update", "idle", NoTile)

(* ----------------------------- environment ----------------------------- *)

\* The map changes: one tile becomes impassable, or passable again.
SetPassable(t, b) ==
    /\ passable' = IF b THEN passable \cup {t} ELSE passable \ {t}
    /\ passable' # passable
    /\ Cardinality(Tiles \ passable') <= MaxBlocked
    /\ last' = Did("map", IF b THEN "opened" ELSE "closed", NoTile)
    /\ UNCHANGED <<player, path, plan, done>>

(* ---------------------------- specification ---------------------------- *)

\* Both handlers before their first statement, their locals unset.
AtRest ==
    [click |-> "c75", target_tile |-> NoTile, player_tile |-> NoTile,
     tick |-> "t115", next_tile |-> NoTile]

\* The state GamePlay is constructed in: a map with some impassable tiles,
\* the player somewhere on a passable tile, no path, nothing consumed.
Init ==
    /\ passable \in {s \in SUBSET Tiles : Cardinality(Tiles \ s) <= MaxBlocked}
    /\ player \in {pos \in Positions : tile(pos) \in passable}
    /\ path \in {None, List(<<>>)}
    /\ plan = <<>>
    /\ done = 0
    /\ last = Did("init", "init", NoTile)
    /\ thread = AtRest

\* event.x and event.y are read only for a press of button 1: one position
\* stands for all positions of any other event.
EventPositions(button, action) ==
    IF button = "MOUSE_BTN1" /\ action = "BUTTON_PRESSED"
    THEN Positions ELSE {<<0, 0>>}

Click ==
    \E button \in Buttons, action \in ButtonActions :
        \E pos \in EventPositions(button, action) :
            click_handler(button, action, pos[1], pos[2]) /\ UNCHANGED thread

Tick == update /\ UNCHANGED thread

MapChange == \E t \in Tiles, b \in BOOLEAN : SetPassable(t, b) /\ UNCHANGED thread

Next == Click \/ Tick \/ MapChange

Spec == Init /\ [][Next]_vars

(* ------------------------- reference definitions ----------------------- *)

\* The tiles get_neighbors(t) lists, as a set.
NeighborSet(t) ==
    LET ns == get_neighbors(t)
    IN  {ns[i] : i \in 1 .. Len(ns)}

\* The tiles reachable through get_neighbors: seen so far, and the frontier
\* whose neighbours are still to be added.
RECURSIVE ReachFrom(_, _)
ReachFrom(seen, frontier) ==
    IF frontier = {} THEN seen
    ELSE LET new == (UNION {NeighborSet(t) : t \in frontier}) \ seen
         IN  ReachFrom(seen \cup new, new)

Reachable(A, B) == B \in ReachFrom({A}, {A})

\* The least number of hops to B from the tiles seen after d hops; defined
\* when B is reachable.
RECURSIVE HopsFrom(_, _, _, _)
HopsFrom(seen, frontier, B, d) ==
    IF B \in seen THEN d
    ELSE LET new == (UNION {NeighborSet(t) : t \in frontier}) \ seen
         IN  HopsFrom(seen \cup new, new, B, d + 1)

Dist(A, B) == HopsFrom({A}, {A}, B, 0)

\* The last handler call was a click that ran bf_pathfinding.
Searched == last.op = "click" /\ last.branch \in {"installed", "not_found"}

\* The last handler call was a click that installed a path.
Installed == last.op = "click" /\ last.branch = "installed"

\* The follower's states.
Following == Truthy(path)
Idle == ~Truthy(path)

Abs(n) == IF n < 0 THEN -n ELSE n

(* ------------------------------- claims -------------------------------- *)

\* C1: when the target is reachable from the start through get_neighbors,
\* bf_pathfinding returns a path whose hop count is the shortest-hop
\* distance, and the path from a tile to itself is that single tile.  Stated
\* of the search click_handler has just run, from the player's tile to the
\* clicked tile, on the map as it is.
C1_ShortestPath ==
    Searched =>
        LET A == tile(player)
            B == last.target
        IN  Reachable(A, B) =>
                /\ Truthy(path)
                /\ Len(path.tiles) - 1 = Dist(A, B)
                /\ (A = B => path.tiles = <<A>>)

\* A search has just returned a path that had to go round a wall: it is
\* longer than the Manhattan distance of its ends.
C1_Witness ==
    /\ Installed
    /\ Len(path.tiles) - 1 >
           Abs(tile(player)[1] - last.target[1]) + Abs(tile(player)[2] - last.target[2])

\* C2: after the k-th tick on an installed path [T1, ..., Tn] whose head was
\* passable at every tick, the player is at world(Tk) and the remaining path
\* is [Tk+1, ..., Tn]; after the n-th tick the path is empty and the
\* follower is Idle.
C2_FollowInOrder ==
    (~path.none /\ plan # <<>>) =>
        /\ done <= Len(plan)
        /\ path.tiles = SubSeq(plan, done + 1, Len(plan))
        /\ (done >= 1 => player = world(plan[done]))
        /\ (done = Len(plan) => Idle)

\* Three ticks have consumed a path of three tiles.
C2_Witness ==
    /\ last.op = "update" /\ last.branch = "moved"
    /\ Len(plan) = 3 /\ done = 3
    /\ path = List(<<>>)
    /\ player = world(plan[3])

\* C3: a tick that finds the head of the active path impassable discards
\* the whole path and leaves the player where it was: on the tile consumed
\* last, when a tile was consumed.
C3_Obstruction ==
    [][(last'.op = "update" /\ Following /\ ~is_tile_passable(path.tiles[1])) =>
          /\ Idle'
          /\ player' = player
          /\ (done >= 1 => player' = world(plan[done]))]_vars

\* The second tile of a three-tile path was blocked after the first tick,
\* and the second tick has run.
C3_Witness ==
    /\ last.op = "update" /\ last.branch = "blocked"
    /\ Len(plan) = 3 /\ done = 1
    /\ ~is_tile_passable(plan[2])
    /\ path = None
    /\ player = world(plan[1])

\* C4: a press of button 1 while a path is active leaves the path as it is
\* and starts no search, whatever the target tile.
C4_ClickIgnoredWhileFollowing ==
    [][(last'.op = "click" /\ last'.branch # "not_press" /\ Following) =>
          /\ path' = path
          /\ ~Searched']_vars

\* A press on a passable tile has been ignored because a path is active.
C4_Witness ==
    /\ last.op = "click" /\ last.branch = "busy"
    /\ Following

\* C5: a press while Idle on an impassable tile, or on a passable tile that
\* is not reachable from the player's tile, installs no path and leaves the
\* player's position as it was.
C5_SilentNoOp ==
    [][(/\ last'.op = "click" /\ last'.target # NoTile
        /\ Idle
        /\ \/ ~is_tile_passable(last'.target)
           \/ ~Reachable(tile(player), last'.target)) =>
          /\ Idle'
          /\ player' = player]_vars

\* A press while Idle on an impassable tile has been rejected.
C5_Witness ==
    /\ last.op = "click" /\ last.branch = "impassable"
    /\ ~is_tile_passable(last.target)
    /\ Idle

\* C6: bf_pathfinding returns None exactly when the target is not reachable
\* from the start through get_neighbors.
C6_NotFoundIffUnreachable ==
    Searched => (path.none <=> ~Reachable(tile(player), last.target))

\* A search for a passable tile in another region has returned None.
C6_Witness ==
    /\ last.op = "click" /\ last.branch = "not_found"
    /\ is_tile_passable(last.target)
    /\ path = None

\* C7: a returned path begins with the start, ends with the target, and
\* each of its tiles is a neighbour of the tile before it.
C7_PathIsAWalk ==
    Installed =>
        LET p == path.tiles
        IN  /\ p[1] = tile(player)
            /\ p[Len(p)] = last.target
            /\ \A i \in 1 .. Len(p) - 1 : p[i + 1] \in NeighborSet(p[i])

\* A search has returned a path of at least three tiles.
C7_Witness ==
    /\ Installed
    /\ Len(path.tiles) >= 3
    /\ path.tiles[2] \in NeighborSet(path.tiles[1])

\* C8 as stated: the freshly installed path does not contain the player's
\* current tile, and its last tile is the clicked tile.
C8_ExcludesPlayerTile ==
    Installed =>
        /\ \A i \in 1 .. Len(path.tiles) : path.tiles[i] # tile(player)
        /\ path.tiles[Len(path.tiles)] = last.target

\* C8 amended: the freshly installed path begins with the player's current
\* tile, holds it nowhere else, and its last tile is the clicked tile.
C8_BeginsWithPlayerTile ==
    Installed =>
        /\ path.tiles[1] = tile(player)
        /\ \A i \in 2 .. Len(path.tiles) : path.tiles[i] # tile(player)
        /\ path.tiles[Len(path.tiles)] = last.target

\* A path to another tile has just been installed.
C8_Witness ==
    /\ Installed
    /\ last.target # tile(player)
    /\ path.tiles[1] = tile(player)

\* C9 as stated: every tile of a freshly installed path is passable.
C9_FreshPathPassable ==
    Installed => \A i \in 1 .. Len(path.tiles) : is_tile_passable(path.tiles[i])

\* C10: only a tick on an active path changes the player's position: no
\* click changes it, and a tick while Idle changes neither it nor the path.
C10_PositionOwnedByFollower ==
    [][/\ (player' # player => (last'.op = "update" /\ Following))
       /\ (last'.op = "click" => player' = player)
       /\ ((last'.op = "update" /\ Idle) => (player' = player /\ path' = path))]_vars

\* A press has installed a path, and the player has not moved yet.
C10_Witness ==
    /\ Installed
    /\ Following
    /\ player # world(tile(player))

\* C11: only the head of the active path is validated.  A tick whose head
\* tile is passable consumes it and keeps the rest, whatever the passability
\* of the later tiles; a tick discards the path only when the head itself is
\* impassable at that tick.
C11_OnlyHeadValidated ==
    [][(last'.op = "update" /\ Following) =>
          IF is_tile_passable(path.tiles[1])
          THEN /\ player' = world(path.tiles[1])
               /\ path' = List(Tail(path.tiles))
          ELSE path' = None]_vars

\* A tick has moved the player although a later tile of its path is
\* impassable.
C11_Witness ==
    /\ last.op = "update" /\ last.branch = "moved"
    /\ Following
    /\ \E i \in 1 .. Len(path.tiles) : ~is_tile_passable(path.tiles[i])

\* C17: the tile a tick moves the player to is the tile it stands on or one
\* that get_neighbors lists for that tile.
C17_NoTeleport ==
    [][(last'.op = "update" /\ player' # player) =>
          \/ tile(player') = tile(player)
          \/ tile(player') \in NeighborSet(tile(player))]_vars

\* A tick has moved the player from one tile to the next.
C17_Witness ==
    /\ last.op = "update" /\ last.branch = "moved"
    /\ done >= 2
    /\ tile(player) = plan[done]
    /\ plan[done] # plan[done - 1]

\* C18: a tick that changes the player's position moves it to the head of
\* the path, and that tile is passable when the tick reads the map.
C18_MovesOnlyOntoPassable ==
    [][(last'.op = "update" /\ player' # player) =>
          /\ Following
          /\ player' = world(path.tiles[1])
          /\ is_tile_passable(path.tiles[1])]_vars

\* A tick has moved the player onto a passable tile of a map on which
\* MaxBlocked other tiles are impassable.
C18_Witness ==
    /\ last.op = "update" /\ last.branch = "moved"
    /\ done >= 2
    /\ player = world(plan[done])
    /\ is_tile_passable(plan[done])
    /\ Cardinality(Tiles \ passable) = MaxBlocked

\* The reference search of C12: a breadth-first search that marks a tile
\* when it is first discovered and never enqueues a marked tile.
\* EagerExtend gives the partial paths one expansion enqueues and the tiles
\* marked after it.
RECURSIVE EagerExtend(_, _, _)
EagerExtend(p, neighbours, seen) ==
    IF neighbours = <<>> THEN [queue |-> <<>>, seen |-> seen]
    ELSE LET n == Head(neighbours)
         IN  IF n \in seen
             THEN EagerExtend(p, Tail(neighbours), seen)
             ELSE LET more == EagerExtend(p, Tail(neighbours), seen \cup {n})
                  IN  [queue |-> <<Append(p, n)>> \o more.queue, seen |-> more.seen]

RECURSIVE eager_loop(_, _, _)
eager_loop(queue, seen, target_tile) ==
    IF queue = <<>> THEN None
    ELSE LET p == Head(queue)
             current_tile == p[Len(p)]
             ext == EagerExtend(p, get_neighbors(current_tile), seen)
         IN  IF current_tile = target_tile THEN List(p)
             ELSE eager_loop(Tail(queue) \o ext.queue, ext.seen, target_tile)

eager_bfs(start_tile, target_tile) ==
    eager_loop(<< <<start_tile>> >>, {start_tile}, target_tile)

\* C12: bf_pathfinding, which enqueues visited neighbours and drops them
\* when they are dequeued, returns the very result (the same tiles in the
\* same order, or None) of the search that filters at enqueue time.
C12_LazyEqualsEager ==
    Searched => path = eager_bfs(tile(player), last.target)

\* A search between two tiles joined by two shortest paths, on a map with
\* no impassable tile, has returned one of them.
C12_Witness ==
    /\ Installed
    /\ passable = Tiles
    /\ tile(player)[1] # last.target[1]
    /\ tile(player)[2] # last.target[2]
    /\ Len(path.tiles) >= 3

\* The expansions of the search from start_tile to target_tile.
Expansions(start_tile, target_tile) ==
    bf_trace(<< <<start_tile>> >>, {}, target_tile, <<>>)

\* C15: bf_pathfinding terminates on every map, with the result the loop
\* returns, and no tile has its neighbours enumerated twice in one call: at
\* most as many expansions as there are tiles.
C15_EachTileExpandedOnce ==
    Searched =>
        LET run == Expansions(tile(player), last.target)
            e == run.expanded
        IN  /\ run.result = path
            /\ \A i, j \in 1 .. Len(e) : e[i] = e[j] => i = j
            /\ Len(e) <= Cardinality(Tiles)

\* A search has ended without a path after expanding three tiles or more,
\* on a map with a passable tile that has no neighbour at all.
C15_Witness ==
    /\ last.op = "click" /\ last.branch = "not_found"
    /\ Len(Expansions(tile(player), last.target).expanded) >= 3
    /\ \E t \in passable : get_neighbors(t) = <<>>

\* Two tiles of the map next to each other, whatever their passability.
Adjacent(s, t) == Abs(s[1] - t[1]) + Abs(s[2] - t[2]) = 1

\* p is a contiguous suffix of q.
IsSuffix(p, q) ==
    /\ Len(p) <= Len(q)
    /\ p = SubSeq(q, Len(q) - Len(p) + 1, Len(q))

\* C16 as stated: the active path is a contiguous suffix of the path
\* installed last, hence its consecutive tiles are always neighbour pairs
\* of get_neighbors and its last tile is the target of the installing click.
C16_SuffixOfNeighbourPairs ==
    /\ Installed => plan[Len(plan)] = last.target
    /\ Following =>
          LET p == path.tiles
          IN  /\ IsSuffix(p, plan)
              /\ p[Len(p)] = plan[Len(plan)]
              /\ \A i \in 1 .. Len(p) - 1 : p[i + 1] \in NeighborSet(p[i])

\* C16 amended: the active path is a contiguous suffix of the path installed
\* last, hence its consecutive tiles are always tiles of the map next to
\* each other and its last tile is the target of the installing click.
C16_SuffixOfInstalled ==
    /\ Installed => plan[Len(plan)] = last.target
    /\ Following =>
          LET p == path.tiles
          IN  /\ IsSuffix(p, plan)
              /\ p[Len(p)] = plan[Len(plan)]
              /\ \A i \in 1 .. Len(p) - 1 : Adjacent(p[i], p[i + 1])

\* Part of an installed path has been consumed, and a tile of the rest has
\* become impassable since.
C16_Witness ==
    /\ Following
    /\ done >= 1
    /\ Len(path.tiles) >= 2
    /\ IsSuffix(path.tiles, plan)
    /\ ~is_tile_passable(path.tiles[2])

\* The frame loop calls update on every frame, so ticks keep coming.
SpecFair == Spec /\ WF_vars(Tick)

\* C14: a tick while Following removes exactly one head tile or clears the
\* path, and no other operation changes the path while Following, so a path
\* of n tiles is gone after at most n ticks; with ticks that keep coming,
\* Following leads to Idle.
C14_FollowingEnds ==
    /\ [][Following =>
            IF last'.op = "update"
            THEN \/ path' = None
                 \/ /\ ~path'.none
                    /\ path'.tiles = Tail(path.tiles)
            ELSE path' = path]_vars
    /\ (Following ~> Idle)

\* Ticks have consumed a path of at least three tiles to its end.
C14_Witness ==
    /\ Idle
    /\ last.op = "update"
    /\ last.branch = "moved"
    /\ done = Len(plan)
    /\ done >= 3

\* The map changes only while no path is active: during a traversal the map
\* is the one the path was computed on.
MapChangeWhileIdle == Idle /\ MapChange

NextStill == Click \/ Tick \/ MapChangeWhileIdle

SpecStill == Init /\ [][NextStill]_vars

\* C19: on a map that does not change after the installation, a path
\* installed for a target d hops away is never discarded; the player is off
\* the target and Following until d + 1 ticks have moved it, the first of
\* them onto its own start tile, and stands on the target and is Idle from
\* the tick d + 1 on.
C19_ArrivesAfterDPlusOneTicks ==
    /\ Installed => Len(plan) = Dist(tile(player), last.target) + 1
    /\ last.branch # "blocked"
    /\ (plan # <<>> /\ done < Len(plan)) =>
          /\ Following
          /\ path.tiles = SubSeq(plan, done + 1, Len(plan))
          /\ tile(player) = plan[IF done = 0 THEN 1 ELSE done]
          /\ Len(plan) >= 2 => tile(player) # plan[Len(plan)]
    /\ (plan # <<>> /\ done = Len(plan)) =>
          /\ Idle
          /\ player = world(plan[Len(plan)])

(* ------------------- the handlers as two threads ------------------------ *)

\* click_handler and update as two threads without mutual exclusion: one
\* step is one statement that reads or writes data.path, data.player or the
\* map. thread.click and thread.tick name the line each thread executes
\* next; c75 and t115 are the handlers' first statements, where a thread
\* also waits between two calls. A non-press event and a tick that finds no
\* path return without a write and are no step.

\* Lines 75-77: a press of button 1 arrives; target_tile is a local.
Click_75(x, y) ==
    /\ thread.click = "c75"
    /\ thread' = [thread EXCEPT !.click = "c81", !.target_tile = tile(<<x, y>>)]
    /\ UNCHANGED <<passable, player, path, plan, done, last>>

\* Lines 81-82.
Click_81 ==
    /\ thread.click = "c81"
    /\ thread' = IF TargetRejected(thread.target_tile)
                 THEN [thread EXCEPT !.click = "c75", !.target_tile = NoTile]
                 ELSE [thread EXCEPT !.click = "c84"]
    /\ UNCHANGED <<passable, player, path, plan, done, last>>

\* Line 84.
Click_84 ==
    /\ thread.click = "c84"
    /\ thread' = IF NoActivePath
                 THEN [thread EXCEPT !.click = "c85"]
                 ELSE [thread EXCEPT !.click = "c75", !.target_tile = NoTile]
    /\ UNCHANGED <<passable, player, path, plan, done, last>>

\* Line 85.
Click_85 ==
    /\ thread.click = "c85"
    /\ thread' = [thread EXCEPT !.click = "c93", !.player_tile = player_tile]
    /\ UNCHANGED <<passable, player, path, plan, done, last>>

\* Line 93: the search runs on the locals and its result is stored.
Click_93 ==
    /\ thread.click = "c93"
    /\ LET found == bf_pathfinding(thread.player_tile, thread.target_tile)
       IN  /\ path' = found
           /\ plan' = found.tiles
           /\ done' = 0
    /\ thread' = [thread EXCEPT !.click = "c75", !.target_tile = NoTile,
                                !.player_tile = NoTile]
    /\ UNCHANGED <<passable, player, last>>

\* Line 115.
Tick_115 ==
    /\ thread.tick = "t115"
    /\ Truthy(path)
    /\ thread' = [thread EXCEPT !.tick = "t116"]
    /\ UNCHANGED <<passable, player, path, plan, done, last>>

\* Line 116: self.data.path is read again; [0] of None or of an empty list
\* raises, which ends the thread.
Tick_116 ==
    /\ thread.tick = "t116"
    /\ thread' = IF Truthy(path)
                 THEN [thread EXCEPT !.tick = "t118", !.next_tile = path.tiles[1]]
                 ELSE [thread EXCEPT !.tick = "raised"]
    /\ UNCHANGED <<passable, player, path, plan, done, last>>

\* Line 118.
Tick_118 ==
    /\ thread.tick = "t118"
    /\ thread' = IF ~is_tile_passable(thread.next_tile)
                 THEN [thread EXCEPT !.tick = "t119"]
                 ELSE [thread EXCEPT !.tick = "t123"]
    /\ UNCHANGED <<passable, player, path, plan, done, last>>

\* Line 119.
Tick_119 ==
    /\ thread.tick = "t119"
    /\ path' = Discarded(path)
    /\ thread' = [thread EXCEPT !.tick = "t115", !.next_tile = NoTile]
    /\ UNCHANGED <<passable, player, plan, done, last>>

\* Lines 122-123: new_pos is a local; player.x is written.
Tick_123 ==
    /\ thread.tick = "t123"
    /\ player' = <<world(thread.next_tile)[1], player[2]>>
    /\ thread' = [thread EXCEPT !.tick = "t124"]
    /\ UNCHANGED <<passable, path, plan, done, last>>

\* Line 124: player.y is written.
Tick_124 ==
    /\ thread.tick = "t124"
    /\ player' = <<player[1], world(thread.next_tile)[2]>>
    /\ thread' = [thread EXCEPT !.tick = "t127"]
    /\ UNCHANGED <<passable, path, plan, done, last>>

\* Line 127: self.data.path is read again and its head removed; pop(0) of
\* None or of an empty list raises, which ends the thread.
Tick_127 ==
    /\ thread.tick = "t127"
    /\ IF Truthy(path)
       THEN /\ path' = Popped(path)
            /\ done' = done + 1
            /\ thread' = [thread EXCEPT !.tick = "t115", !.next_tile = NoTile]
       ELSE /\ UNCHANGED <<path, done>>
            /\ thread' = [thread EXCEPT !.tick = "raised"]
    /\ UNCHANGED <<passable, player, plan, last>>

\* A click handler that has been entered runs on.
ClickRun == Click_81 \/ Click_84 \/ Click_85 \/ Click_93

ClickThread == (\E pos \in Positions : Click_75(pos[1], pos[2])) \/ ClickRun

TickThread ==
    \/ Tick_115 \/ Tick_116 \/ Tick_118 \/ Tick_119
    \/ Tick_123 \/ Tick_124 \/ Tick_127

NextRace == ClickThread \/ TickThread \/ MapChange

\* Both threads are scheduled again and again; presses need not arrive.
SpecRace ==
    /\ Init
    /\ [][NextRace]_vars
    /\ WF_vars(ClickRun)
    /\ WF_vars(TickThread)

\* update is between its test of the path and its last statement.
TickInFlight == thread.tick \in {"t116", "t118", "t119", "t123", "t124", "t127"}

\* click_handler has found no active path and has not yet stored one.
ClickInstalling == thread.click \in {"c85", "c93"}

\* C13 as stated: with the handlers as two threads, a state is reached in
\* which the active path is not a contiguous suffix of one bf_pathfinding
\* result.
C13_RaceCorruptsPathOrder ==
    <>(Following /\ ~IsSuffix(path.tiles, plan))

\* C13 amended: with the handlers as two threads, the active path is always
\* empty/absent or a contiguous suffix of the latest bf_pathfinding result:
\* a click stores a path only after it found none, a tick writes only after
\* it found one, so no click installs a path while a tick is between its
\* test and its pop, the tile a tick moves to is the head it pops, and
\* neither thread raises.
C13_NoRaceOnThePath ==
    /\ Following => IsSuffix(path.tiles, plan)
    /\ ~(TickInFlight /\ ClickInstalling)
    /\ TickInFlight => Following
    /\ thread.tick \in {"t118", "t119", "t123", "t124", "t127"} =>
          thread.next_tile = path.tiles[1]
    /\ thread.tick # "raised"

\* The threads are interleaved: a click is about to test the path while a
\* tick is about to pop its last tile.
C13_Witness ==
    /\ thread.click = "c84"
    /\ thread.tick = "t127"
    /\ Len(path.tiles) = 1
    /\ Len(plan) >= 2

=============================================================================
